---- MODULE Spec2Model ----
(***************************************************************************)
(* A model of falcon/util.py: the HTTP date conversions, the query string  *)
(* builder, the percent escaping functions and the deprecation decorator.  *)
(* Text is a sequence of characters.  The date and query parts write a     *)
(* character as a one-character string, the percent escaping part as its   *)
(* code point, because it computes with the bytes of the UTF-8 encoding.   *)
(***************************************************************************)
EXTENDS Integers, Sequences, FiniteSets, TLC

VARIABLES
    \* ---- HTTP dates
    padYear,     \* platform: strftime's %Y pads the year to four digits
    tzname,      \* platform: time.tzname, the local zone names strptime accepts
    dtArg,       \* the timestamp the calls are about
    dateKind,    \* where the date string comes from: "dt_to_http", or how a caller wrote it
    dateStr,     \* the HTTP date string in flight
    dtRes,       \* what http_date_to_dt returned (a timestamp or ValueError)
    datePc,      \* "start" | "formatted" | "parsed"
    \* ---- query strings
    params,      \* the mapping given to to_query_str: its items in iteration order
    queryStr,    \* what to_query_str returned
    queryPc,     \* "start" | "returned"
    \* ---- percent escaping
    urlKind,     \* "text": a URL to escape; "native": an escaped string to decode
    urlArg,      \* the argument of the first call
    urlMid,      \* what the first call gave
    urlRes,      \* what the second call, on the first one's value, gave
    urlPc,       \* "start" | "escaped" | "unescaped" | "round_trip" | "reescaped"
    \* ---- the deprecation decorator
    filterAction,  \* the action the warnings filters give a DeprecatedWarning
    onceRegistry,  \* warnings.onceregistry: the messages shown under "once"
    issued,        \* the calls of warn_explicit so far
    shown,         \* the warnings shown so far
    lastWarning,   \* the last warning shown
    calls,         \* the calls of a wrapper so far
    invocations,   \* the calls of a wrapped function so far
    cur,           \* the call of the wrapper in progress, or the last one
    wpc            \* the wrapper's position: "idle" | "warn" | "invoke"

dateVars == <<padYear, tzname, dtArg, dateKind, dateStr, dtRes, datePc>>
queryVars == <<params, queryStr, queryPc>>
urlVars == <<urlKind, urlArg, urlMid, urlRes, urlPc>>
deprecatedVars ==
    <<filterAction, onceRegistry, issued, shown, lastWarning, calls, invocations,
      cur, wpc>>

\* What a call gave: a value, or the exception it raised
None == [none |-> TRUE]
Raised(exception) == [raised |-> exception]
Returned(value) == [value |-> value]
ValueError == Raised("ValueError")

(***************************************************************************)
(* Characters                                                              *)
(***************************************************************************)
DigitChars == <<"0", "1", "2", "3", "4", "5", "6", "7", "8", "9">>
Uppers == <<"A", "B", "C", "D", "E", "F", "G", "H", "I", "J", "K", "L", "M",
            "N", "O", "P", "Q", "R", "S", "T", "U", "V", "W", "X", "Y", "Z">>
Lowers == <<"a", "b", "c", "d", "e", "f", "g", "h", "i", "j", "k", "l", "m",
            "n", "o", "p", "q", "r", "s", "t", "u", "v", "w", "x", "y", "z">>

Range(f) == {f[i] : i \in DOMAIN f}

DigitChar(n) == DigitChars[n + 1]
DigitVal(c) == CHOOSE n \in 0..9 : DigitChars[n + 1] = c
IsDigit(c) == c \in Range(DigitChars)

\* str.lower() of one character (what re.IGNORECASE compares)
Lower(c) ==
    IF c \in Range(Uppers)
    THEN Lowers[CHOOSE i \in DOMAIN Uppers : Uppers[i] = c]
    ELSE c

LowerStr(s) == [i \in DOMAIN s |-> Lower(s[i])]

\* the characters the regular expression class \s matches, of those modelled
IsSpace(c) == c \in {" ", "\t"}

\* int(): the value of a run of decimal digits, blanks around it ignored
RECURSIVE IntOf(_)
IntOf(s) ==
    IF s = <<>> THEN 0
    ELSE IF IsSpace(s[1]) THEN IntOf(Tail(s))
    ELSE IF IsSpace(s[Len(s)]) THEN IntOf(SubSeq(s, 1, Len(s) - 1))
    ELSE IntOf(SubSeq(s, 1, Len(s) - 1)) * 10 + DigitVal(s[Len(s)])

\* str() of a natural number
RECURSIVE Decimal(_)
Decimal(n) ==
    IF n < 10 THEN <<DigitChar(n)>>
    ELSE Append(Decimal(n \div 10), DigitChar(n % 10))

\* "%02d"
Pad2(n) == <<DigitChar((n \div 10) % 10), DigitChar(n % 10)>>

\* "%04d"
Pad4(n) ==
    <<DigitChar((n \div 1000) % 10), DigitChar((n \div 100) % 10),
      DigitChar((n \div 10) % 10), DigitChar(n % 10)>>

(***************************************************************************)
(* The calendar of datetime: proleptic Gregorian, weekday() with Monday 0  *)
(***************************************************************************)
DayNames ==
    << <<"M", "o", "n">>, <<"T", "u", "e">>, <<"W", "e", "d">>,
       <<"T", "h", "u">>, <<"F", "r", "i">>, <<"S", "a", "t">>,
       <<"S", "u", "n">> >>

MonthNames ==
    << <<"J", "a", "n">>, <<"F", "e", "b">>, <<"M", "a", "r">>,
       <<"A", "p", "r">>, <<"M", "a", "y">>, <<"J", "u", "n">>,
       <<"J", "u", "l">>, <<"A", "u", "g">>, <<"S", "e", "p">>,
       <<"O", "c", "t">>, <<"N", "o", "v">>, <<"D", "e", "c">> >>

MINYEAR == 1
MAXYEAR == 9999

IsLeap(y) == y % 4 = 0 /\ (y % 100 # 0 \/ y % 400 = 0)

DaysInMonth(y, m) ==
    IF m = 2 THEN (IF IsLeap(y) THEN 29 ELSE 28)
    ELSE IF m \in {4, 6, 9, 11} THEN 30 ELSE 31

DaysBeforeYear(y) ==
    (y - 1) * 365 + (y - 1) \div 4 - (y - 1) \div 100 + (y - 1) \div 400

RECURSIVE DaysBeforeMonth(_, _)
DaysBeforeMonth(y, m) ==
    IF m = 1 THEN 0 ELSE DaysBeforeMonth(y, m - 1) + DaysInMonth(y, m - 1)

Ymd2Ord(y, m, d) == DaysBeforeYear(y) + DaysBeforeMonth(y, m) + d

\* date.weekday(): Monday is 0
Weekday(y, m, d) == (Ymd2Ord(y, m, d) + 6) % 7

\* datetime(year, month, day, hour, minute, second): the values it accepts
ValidDateTime(y, m, d, hh, mm, ss) ==
    /\ y \in MINYEAR..MAXYEAR
    /\ m \in 1..12
    /\ d \in 1..DaysInMonth(y, m)
    /\ hh \in 0..23
    /\ mm \in 0..59
    /\ ss \in 0..59

DateTime(y, m, d, hh, mm, ss) ==
    [year |-> y, month |-> m, day |-> d, hour |-> hh, minute |-> mm, second |-> ss]

(***************************************************************************)
(* dt_to_http: dt.strftime('%a, %d %b %Y %H:%M:%S GMT')                     *)
(***************************************************************************)
\* %Y: the C library's year, padded to four digits or not, as the platform does
YearDirective(y) == IF padYear THEN Pad4(y) ELSE Decimal(y)

dt_to_http(dt) ==
    DayNames[Weekday(dt.year, dt.month, dt.day) + 1] \o <<",", " ">>
        \o Pad2(dt.day) \o <<" ">>
        \o MonthNames[dt.month] \o <<" ">>
        \o YearDirective(dt.year) \o <<" ">>
        \o Pad2(dt.hour) \o <<":">> \o Pad2(dt.minute) \o <<":">> \o Pad2(dt.second)
        \o <<" ", "G", "M", "T">>

(***************************************************************************)
(* http_date_to_dt: datetime.strptime(http_date, '%a, %d %b %Y %H:%M:%S %Z')*)
(* strptime turns the format into a regular expression (every directive a  *)
(* group of alternatives, every blank of the format \s+), matches it with  *)
(* IGNORECASE at the start of the string, refuses unconverted data after   *)
(* the match, and builds the datetime from the groups.                     *)
(***************************************************************************)
D09 == Range(DigitChars)
D19 == D09 \ {"0"}

\* DirectiveAlts with a year group that also takes two digits, as %y does
DirectiveAltsShortYear(d) ==
    CASE d = "d" -> {<<{"3"}, {"0", "1"}>>, <<{"1", "2"}, D09>>, <<{"0"}, D19>>,
                     <<D19>>, <<{" "}, D19>>}
      [] d = "Y" -> {<<D09, D09, D09, D09>>, <<D09, D09>>}
      [] d = "H" -> {<<{"2"}, {"0", "1", "2", "3"}>>, <<{"0", "1"}, D09>>, <<D09>>}
      [] d = "M" -> {<<{"0", "1", "2", "3", "4", "5"}, D09>>, <<D09>>}
      [] d = "S" -> {<<{"6"}, {"0", "1"}>>, <<{"0", "1", "2", "3", "4", "5"}, D09>>,
                     <<D09>>}

\* The alternatives of a numeric directive, each a sequence of character classes
DirectiveAlts(d) ==
    CASE d = "d" -> {<<{"3"}, {"0", "1"}>>, <<{"1", "2"}, D09>>, <<{"0"}, D19>>,
                     <<D19>>, <<{" "}, D19>>}
      [] d = "Y" -> {<<D09, D09, D09, D09>>}
      [] d = "H" -> {<<{"2"}, {"0", "1", "2", "3"}>>, <<{"0", "1"}, D09>>, <<D09>>}
      [] d = "M" -> {<<{"0", "1", "2", "3", "4", "5"}, D09>>, <<D09>>}
      [] d = "S" -> {<<{"6"}, {"0", "1"}>>, <<{"0", "1", "2", "3", "4", "5"}, D09>>,
                     <<D09>>}

\* The names a name directive matches, in lower case: the C locale's names, and
\* for %Z utc, gmt and the local zone's names
DirectiveNames(d) ==
    CASE d = "a" -> {LowerStr(DayNames[i]) : i \in DOMAIN DayNames}
      [] d = "b" -> {LowerStr(MonthNames[i]) : i \in DOMAIN MonthNames}
      [] d = "Z" -> {<<"u", "t", "c">>, <<"g", "m", "t">>}
                        \cup {LowerStr(tzname[i]) : i \in DOMAIN tzname}

\* '%a, %d %b %Y %H:%M:%S %Z' as the elements of its regular expression
DateFormat ==
    << [dir |-> "a"], [lit |-> ","], [ws |-> TRUE], [dir |-> "d"], [ws |-> TRUE],
       [dir |-> "b"], [ws |-> TRUE], [dir |-> "Y"], [ws |-> TRUE], [dir |-> "H"],
       [lit |-> ":"], [dir |-> "M"], [lit |-> ":"], [dir |-> "S"], [ws |-> TRUE],
       [dir |-> "Z"] >>

\* s[i .. i+Len(alt)-1] is in the classes of alt
FitsAlt(s, i, alt) ==
    /\ i + Len(alt) - 1 <= Len(s)
    /\ \A k \in DOMAIN alt : Lower(s[i + k - 1]) \in alt[k]

\* s[i ..] starts with name, letter case ignored
FitsName(s, i, name) ==
    /\ i + Len(name) - 1 <= Len(s)
    /\ \A k \in DOMAIN name : Lower(s[i + k - 1]) = name[k]

\* The ways one element matches at position i: <<next position, group text>>
ElementMatches(s, i, e) ==
    IF "lit" \in DOMAIN e
    THEN IF i <= Len(s) /\ s[i] = e.lit THEN {<<i + 1, <<>>>>} ELSE {}
    ELSE IF "ws" \in DOMAIN e
    THEN {<<j, <<>>>> : j \in {j \in (i + 1)..(Len(s) + 1) :
                                   \A k \in i..(j - 1) : IsSpace(s[k])}}
    ELSE IF e.dir \in {"a", "b", "Z"}
    THEN {<<i + Len(n), n>> : n \in {n \in DirectiveNames(e.dir) : FitsName(s, i, n)}}
    ELSE {<<i + Len(a), SubSeq(s, i, i + Len(a) - 1)>> :
              a \in {a \in DirectiveAlts(e.dir) : FitsAlt(s, i, a)}}

\* format_regex.match(data_string): the matches of elements k.. from position
\* i on, each the end of the match and the groups found
RECURSIVE RegexMatch(_, _, _, _)
RegexMatch(s, i, k, found) ==
    IF k > Len(DateFormat) THEN {<<i, found>>}
    ELSE UNION { RegexMatch(s, m[1], k + 1,
                     IF "dir" \in DOMAIN DateFormat[k]
                     THEN (DateFormat[k].dir :> m[2]) @@ found
                     ELSE found) :
                 m \in ElementMatches(s, i, DateFormat[k]) }

\* The index of a name among the locale's names (a weekday 0.., a month 1..)
NameIndex(names, n) == CHOOSE i \in DOMAIN names : LowerStr(names[i]) = n

\* _strptime and the datetime constructor on its result.  The matches of one
\* string differ at most in which blank the day group took: they end at the
\* same place and give the same values, so any of them is the engine's.
http_date_to_dt(http_date) ==
    LET matches == RegexMatch(http_date, 1, 1, <<>>)
    IN  IF matches = {} THEN ValueError         \* does not match format
        ELSE
          LET m == CHOOSE x \in matches : TRUE
              found == m[2]
              y == IntOf(found["Y"])
              mo == NameIndex(MonthNames, found["b"])
              d == IntOf(found["d"])
              hh == IntOf(found["H"])
              mm == IntOf(found["M"])
              ss == IntOf(found["S"])
          IN  IF m[1] # Len(http_date) + 1 THEN ValueError   \* unconverted data
              ELSE IF ~ValidDateTime(y, mo, d, hh, mm, ss) THEN ValueError
              ELSE DateTime(y, mo, d, hh, mm, ss)

(***************************************************************************)
(* The inputs of the date functions                                        *)
(***************************************************************************)
YearSpan == 2
Years == {999, 1000, 9999} \cup 1994..(1994 + YearSpan)
TimesOfDay == {<<0, 0, 0>>, <<12, 45, 26>>, <<23, 59, 59>>, <<1, 2, 3>>}

Timestamps ==
    {DateTime(y, m, d, t[1], t[2], t[3]) :
         y \in Years, m \in 1..12, d \in 1..31, t \in TimesOfDay}

\* The timestamps a caller's hand-written date strings are about
WrittenTimestamps ==
    {t \in Timestamps : /\ t.year \in {1994, 1994 + YearSpan}
                        /\ t.month \in {2, 11}
                        /\ t.day \in {5, 15, 28}}

\* The platforms' time.tzname
TzNames == {<<"U", "T", "C">>, <<"E", "S", "T">>, <<"E", "D", "T">>}
Platforms == {<< <<"U", "T", "C">>, <<"U", "T", "C">> >>,
              << <<"E", "S", "T">>, <<"E", "D", "T">> >>}

\* The strings in the format the documentation gives, accepted as written
LenientKinds ==
    {"exact", "weekday_lower", "weekday_upper", "weekday_other", "month_lower",
     "zone_lower", "zone_utc", "day_unpadded", "day_blank_padded", "hour_unpadded",
     "minute_unpadded", "second_unpadded", "two_blanks", "tab"}

\* The strings that must not parse
MalformedKinds ==
    {"weekday_misspelt", "weekday_long", "month_misspelt", "month_long",
     "day_three_digits", "day_zero", "day_past_month_end", "year_two_digits",
     "year_five_digits", "hour_24", "minute_60", "second_60", "zone_offset",
     "zone_missing", "zone_other", "no_blank_after_comma", "no_comma",
     "leading_blank", "trailing_blank", "trailing_text", "rfc850", "asctime",
     "empty"}

\* A zone name: parses where it is one of the platform's local zone names
LocalZoneKinds == {"zone_est"}

DateKinds == LenientKinds \cup MalformedKinds \cup LocalZoneKinds

UpperStr(s) ==
    [i \in DOMAIN s |->
        IF s[i] \in Range(Lowers)
        THEN Uppers[CHOOSE k \in DOMAIN Lowers : Lowers[k] = s[i]]
        ELSE s[i]]

\* The parts of the date string of t in the documented format
DateParts(t) ==
    [wd |-> DayNames[Weekday(t.year, t.month, t.day) + 1], comma |-> <<",">>,
     sp1 |-> <<" ">>, dd |-> Pad2(t.day), sp2 |-> <<" ">>,
     mon |-> MonthNames[t.month], yyyy |-> Pad4(t.year), hh |-> Pad2(t.hour),
     mm |-> Pad2(t.minute), ss |-> Pad2(t.second), sp3 |-> <<" ">>,
     zone |-> <<"G", "M", "T">>, before |-> <<>>, after |-> <<>>]

JoinDateParts(p) ==
    p.before \o p.wd \o p.comma \o p.sp1 \o p.dd \o p.sp2 \o p.mon \o <<" ">>
        \o p.yyyy \o <<" ">> \o p.hh \o <<":">> \o p.mm \o <<":">> \o p.ss
        \o p.sp3 \o p.zone \o p.after

\* The date string of t as a caller of the given kind writes it
WrittenDate(kind, t) ==
    LET p == DateParts(t)
        wdi == Weekday(t.year, t.month, t.day)
    IN CASE kind = "exact" -> JoinDateParts(p)
         [] kind = "weekday_lower" -> JoinDateParts([p EXCEPT !.wd = LowerStr(@)])
         [] kind = "weekday_upper" -> JoinDateParts([p EXCEPT !.wd = UpperStr(@)])
         [] kind = "weekday_other" ->
                JoinDateParts([p EXCEPT !.wd = DayNames[((wdi + 1) % 7) + 1]])
         [] kind = "weekday_misspelt" ->
                JoinDateParts([p EXCEPT !.wd = <<@[1], @[2], "x">>])
         [] kind = "weekday_long" -> JoinDateParts([p EXCEPT !.wd = @ \o <<"s">>])
         [] kind = "month_lower" -> JoinDateParts([p EXCEPT !.mon = LowerStr(@)])
         [] kind = "month_misspelt" ->
                JoinDateParts([p EXCEPT !.mon = <<@[1], @[2], "x">>])
         [] kind = "month_long" -> JoinDateParts([p EXCEPT !.mon = @ \o <<"e">>])
         [] kind = "day_unpadded" -> JoinDateParts([p EXCEPT !.dd = Decimal(t.day)])
         [] kind = "day_blank_padded" ->
                JoinDateParts([p EXCEPT !.dd = IF t.day < 10
                                               THEN <<" ">> \o Decimal(t.day) ELSE @])
         [] kind = "day_three_digits" -> JoinDateParts([p EXCEPT !.dd = <<"0">> \o @])
         [] kind = "day_zero" -> JoinDateParts([p EXCEPT !.dd = <<"0", "0">>])
         [] kind = "day_past_month_end" ->
                JoinDateParts([p EXCEPT !.dd = Pad2(DaysInMonth(t.year, t.month) + 1)])
         [] kind = "year_two_digits" ->
                JoinDateParts([p EXCEPT !.yyyy = Pad2(t.year % 100)])
         [] kind = "year_five_digits" -> JoinDateParts([p EXCEPT !.yyyy = <<"0">> \o @])
         [] kind = "hour_unpadded" -> JoinDateParts([p EXCEPT !.hh = Decimal(t.hour)])
         [] kind = "minute_unpadded" ->
                JoinDateParts([p EXCEPT !.mm = Decimal(t.minute)])
         [] kind = "second_unpadded" ->
                JoinDateParts([p EXCEPT !.ss = Decimal(t.second)])
         [] kind = "hour_24" -> JoinDateParts([p EXCEPT !.hh = <<"2", "4">>])
         [] kind = "minute_60" -> JoinDateParts([p EXCEPT !.mm = <<"6", "0">>])
         [] kind = "second_60" -> JoinDateParts([p EXCEPT !.ss = <<"6", "0">>])
         [] kind = "zone_lower" -> JoinDateParts([p EXCEPT !.zone = LowerStr(@)])
         [] kind = "zone_utc" -> JoinDateParts([p EXCEPT !.zone = <<"U", "T", "C">>])
         [] kind = "zone_est" -> JoinDateParts([p EXCEPT !.zone = <<"E", "S", "T">>])
         [] kind = "zone_other" -> JoinDateParts([p EXCEPT !.zone = <<"C", "E", "T">>])
         [] kind = "zone_offset" ->
                JoinDateParts([p EXCEPT !.zone = <<"+", "0", "0", "0", "0">>])
         [] kind = "zone_missing" ->
                JoinDateParts([p EXCEPT !.sp3 = <<>>, !.zone = <<>>])
         [] kind = "two_blanks" -> JoinDateParts([p EXCEPT !.sp1 = <<" ", " ">>])
         [] kind = "tab" -> JoinDateParts([p EXCEPT !.sp2 = <<"\t">>])
         [] kind = "no_blank_after_comma" -> JoinDateParts([p EXCEPT !.sp1 = <<>>])
         [] kind = "no_comma" -> JoinDateParts([p EXCEPT !.comma = <<>>])
         [] kind = "leading_blank" -> JoinDateParts([p EXCEPT !.before = <<" ">>])
         [] kind = "trailing_blank" -> JoinDateParts([p EXCEPT !.after = <<" ">>])
         [] kind = "trailing_text" -> JoinDateParts([p EXCEPT !.after = <<"x">>])
         [] kind = "rfc850" ->   \* Tue, 15-Nov-94 12:45:26 GMT
                p.wd \o <<",", " ">> \o p.dd \o <<"-">> \o p.mon \o <<"-">>
                    \o Pad2(t.year % 100) \o <<" ">> \o p.hh \o <<":">> \o p.mm
                    \o <<":">> \o p.ss \o <<" ">> \o p.zone
         [] kind = "asctime" ->  \* Tue Nov 15 12:45:26 1994
                p.wd \o <<" ">> \o p.mon \o <<" ">> \o p.dd \o <<" ">> \o p.hh
                    \o <<":">> \o p.mm \o <<":">> \o p.ss \o <<" ">> \o p.yyyy
         [] kind = "empty" -> <<>>

(***************************************************************************)
(* The date functions called: dt_to_http on a timestamp, http_date_to_dt   *)
(* on its result or on a string a caller wrote                             *)
(***************************************************************************)
DateInit ==
    /\ padYear \in BOOLEAN
    /\ tzname \in Platforms
    /\ \/ dtArg \in {t \in Timestamps : t.day <= DaysInMonth(t.year, t.month)}
          /\ dateKind = "dt_to_http"
          /\ dateStr = <<>>
       \/ /\ dtArg \in WrittenTimestamps
          /\ dateKind \in DateKinds
          /\ dateStr = WrittenDate(dateKind, dtArg)
    /\ dtRes = None
    /\ datePc = "start"

\* s = dt_to_http(dt)
DtToHttp ==
    /\ datePc = "start"
    /\ dateKind = "dt_to_http"
    /\ dateStr' = dt_to_http(dtArg)
    /\ datePc' = "formatted"
    /\ UNCHANGED <<padYear, tzname, dtArg, dateKind, dtRes>>
    /\ UNCHANGED <<queryVars, urlVars, deprecatedVars>>

\* http_date_to_dt(s) on the string dt_to_http returned or a caller wrote
HttpDateToDt ==
    /\ \/ datePc = "formatted"
       \/ datePc = "start" /\ dateKind \in DateKinds
    /\ dtRes' = http_date_to_dt(dateStr)
    /\ datePc' = "parsed"
    /\ UNCHANGED <<padYear, tzname, dtArg, dateKind, dateStr>>
    /\ UNCHANGED <<queryVars, urlVars, deprecatedVars>>

DateNext == DtToHttp \/ HttpDateToDt

(***************************************************************************)
(* to_query_str.  A value of the mapping is a Python object, written with  *)
(* its type: a bool, an int, a str, None, a list or a tuple of those.      *)
(***************************************************************************)
PyBool(b) == [type |-> "bool", v |-> b]
PyInt(n) == [type |-> "int", v |-> n]
PyStr(s) == [type |-> "str", v |-> s]
NoneValue == [type |-> "NoneType", v |-> 0]
PyList(items) == [type |-> "list", v |-> items]
PyTuple(items) == [type |-> "tuple", v |-> items]

IsScalar(x) == x.type \in {"bool", "int", "str", "NoneType"}

\* Join(sep, parts): sep.join(parts)
RECURSIVE Join(_, _)
Join(sep, parts) ==
    IF parts = <<>> THEN <<>>
    ELSE IF Len(parts) = 1 THEN parts[1]
    ELSE parts[1] \o sep \o Join(sep, Tail(parts))

\* str() of a scalar; repr() differs for a str only, which it quotes
ScalarStr(x, quoted) ==
    CASE x.type = "bool" -> IF x.v THEN <<"T", "r", "u", "e">>
                                   ELSE <<"F", "a", "l", "s", "e">>
      [] x.type = "int" -> IF x.v < 0 THEN <<"-">> \o Decimal(0 - x.v) ELSE Decimal(x.v)
      [] x.type = "str" -> IF quoted THEN <<"'">> \o x.v \o <<"'">> ELSE x.v
      [] x.type = "NoneType" -> <<"N", "o", "n", "e">>

\* repr() of the items of a container, as str() of the container joins them
ItemReprs(items) ==
    Join(<<",", " ">>, [i \in DOMAIN items |-> ScalarStr(items[i], TRUE)])

\* str(x)
Str(x) ==
    CASE IsScalar(x) -> ScalarStr(x, FALSE)
      [] x.type = "list" -> <<"[">> \o ItemReprs(x.v) \o <<"]">>
      [] x.type = "tuple" ->
             <<"(">> \o ItemReprs(x.v) \o (IF Len(x.v) = 1 THEN <<",">> ELSE <<>>)
                 \o <<")">>

\* The value transform with == in the place of is: 1 == True and 0 == False
RenderValueByEquality(v) ==
    IF (v.type = "bool" /\ v.v) \/ (v.type = "int" /\ v.v = 1)
    THEN <<"t", "r", "u", "e">>
    ELSE IF (v.type = "bool" /\ ~v.v) \/ (v.type = "int" /\ v.v = 0)
    THEN <<"f", "a", "l", "s", "e">>
    ELSE IF v.type = "list"
    THEN Join(<<",">>, [i \in DOMAIN v.v |-> Str(v.v[i])])
    ELSE Str(v)

\* The value transform of the loop: v is True, v is False, a list, anything else
RenderValue(v) ==
    IF v.type = "bool" /\ v.v THEN <<"t", "r", "u", "e">>
    ELSE IF v.type = "bool" /\ ~v.v THEN <<"f", "a", "l", "s", "e">>
    ELSE IF v.type = "list"
    THEN Join(<<",">>, [i \in DOMAIN v.v |-> Str(v.v[i])])
    ELSE Str(v)

\* The loop over params.items(): query_str += k + '=' + v + '&'
RECURSIVE QueryLoop(_, _)
QueryLoop(items, query_str) ==
    IF items = <<>> THEN query_str
    ELSE QueryLoop(Tail(items),
                   query_str \o items[1][1] \o <<"=">> \o RenderValue(items[1][2])
                       \o <<"&">>)

\* to_query_str that returns query_str, its last '&' kept
to_query_str_keeping_last(p) ==
    IF p = <<>> THEN <<>> ELSE QueryLoop(p, <<"?">>)

to_query_str(p) ==
    IF p = <<>> THEN <<>>
    ELSE LET query_str == QueryLoop(p, <<"?">>)
         IN  SubSeq(query_str, 1, Len(query_str) - 1)

(***************************************************************************)
(* The inputs of to_query_str                                              *)
(***************************************************************************)
MaxParams == 2

QueryKeys == {<<"a">>, <<"b">>, <<"i", "d">>}

SeqsUpTo(S, n) == UNION {[1..k -> S] : k \in 0..n}

QueryValues ==
    {PyBool(TRUE), PyBool(FALSE), PyInt(0), PyInt(1), PyInt(-7), PyInt(23),
     PyStr(<<>>), PyStr(<<"x", "y">>), PyStr(<<"x", "&", "y">>), NoneValue,
     PyList(<<>>), PyList(<<PyInt(1)>>), PyList(<<PyInt(1), PyInt(2), PyInt(3)>>),
     PyList(<<PyBool(TRUE), PyStr(<<"x">>)>>), PyList(<<NoneValue, PyInt(0)>>),
     PyTuple(<<PyInt(1), PyInt(2)>>), PyTuple(<<PyStr(<<"x">>)>>)}

\* A dict: its keys differ
QueryParams ==
    {p \in SeqsUpTo(QueryKeys \X QueryValues, MaxParams) :
         \A i, j \in DOMAIN p : i # j => p[i][1] # p[j][1]}

QueryInit ==
    /\ params \in QueryParams
    /\ queryStr = <<>>
    /\ queryPc = "start"

ToQueryStr ==
    /\ queryPc = "start"
    /\ queryStr' = to_query_str(params)
    /\ queryPc' = "returned"
    /\ UNCHANGED params
    /\ UNCHANGED <<dateVars, urlVars, deprecatedVars>>

QueryNext == ToQueryStr

(***************************************************************************)
(* percent_escape and percent_unescape.  A string is the sequence of its   *)
(* code points; urllib works on the bytes of its UTF-8 encoding.           *)
(***************************************************************************)
\* The printable ASCII characters from code point 32 on
AsciiChars ==
    <<" ", "!", "(quote)", "#", "$", "%", "&", "'", "(", ")", "*", "+", ",", "-", ".",
      "/", "0", "1", "2", "3", "4", "5", "6", "7", "8", "9", ":", ";", "<", "=",
      ">", "?", "@", "A", "B", "C", "D", "E", "F", "G", "H", "I", "J", "K", "L",
      "M", "N", "O", "P", "Q", "R", "S", "T", "U", "V", "W", "X", "Y", "Z", "[",
      "(backslash)", "]", "^", "_", "(grave)", "a", "b", "c", "d", "e", "f", "g",
      "h", "i", "j", "k", "l", "m", "n", "o", "p", "q", "r", "s", "t", "u", "v", "w", "x", "y",
      "z", "{", "|", "}", "~">>

\* ord(c) of a printable ASCII character, and the code points of a text
Ord(c) == 31 + CHOOSE i \in DOMAIN AsciiChars : AsciiChars[i] = c
Ords(s) == [i \in DOMAIN s |-> Ord(s[i])]

\* str.encode('utf-8') of one code point; a surrogate has no encoding
IsSurrogate(cp) == cp \in 55296..57343

Utf8Encode(cp) ==
    IF cp < 128 THEN <<cp>>
    ELSE IF cp < 2048 THEN <<192 + (cp \div 64), 128 + (cp % 64)>>
    ELSE IF cp < 65536
    THEN <<224 + (cp \div 4096), 128 + ((cp \div 64) % 64), 128 + (cp % 64)>>
    ELSE <<240 + (cp \div 262144), 128 + ((cp \div 4096) % 64),
           128 + ((cp \div 64) % 64), 128 + (cp % 64)>>

RECURSIVE Utf8EncodeAll(_)
Utf8EncodeAll(s) ==
    IF s = <<>> THEN <<>> ELSE Utf8Encode(s[1]) \o Utf8EncodeAll(Tail(s))

\* U+FFFD, what errors='replace' puts for bytes that are not UTF-8
ReplacementChar == 65533

\* bytes.decode('utf-8', 'replace'): one replacement character for every
\* maximal part of an ill-formed sequence
RECURSIVE Utf8Decode(_)
Utf8Decode(b) ==
    IF b = <<>> THEN <<>>
    ELSE
      LET n == Len(b)
          b1 == b[1]
          In(i, lo, hi) == i <= n /\ b[i] \in lo..hi
          Rest(k) == Utf8Decode(SubSeq(b, k + 1, n))
          lo2 == IF b1 = 224 THEN 160 ELSE IF b1 = 240 THEN 144 ELSE 128
          hi2 == IF b1 = 237 THEN 159 ELSE IF b1 = 244 THEN 143 ELSE 191
      IN  IF b1 < 128 THEN <<b1>> \o Rest(1)
          ELSE IF b1 \in 194..223
          THEN IF In(2, 128, 191)
               THEN <<(b1 - 192) * 64 + (b[2] - 128)>> \o Rest(2)
               ELSE <<ReplacementChar>> \o Rest(1)
          ELSE IF b1 \in 224..239
          THEN IF ~In(2, lo2, hi2) THEN <<ReplacementChar>> \o Rest(1)
               ELSE IF ~In(3, 128, 191) THEN <<ReplacementChar>> \o Rest(2)
               ELSE <<(b1 - 224) * 4096 + (b[2] - 128) * 64 + (b[3] - 128)>> \o Rest(3)
          ELSE IF b1 \in 240..244
          THEN IF ~In(2, lo2, hi2) THEN <<ReplacementChar>> \o Rest(1)
               ELSE IF ~In(3, 128, 191) THEN <<ReplacementChar>> \o Rest(2)
               ELSE IF ~In(4, 128, 191) THEN <<ReplacementChar>> \o Rest(3)
               ELSE <<(b1 - 240) * 262144 + (b[2] - 128) * 4096 + (b[3] - 128) * 64
                          + (b[4] - 128)>> \o Rest(4)
          ELSE <<ReplacementChar>> \o Rest(1)

\* urllib's _ALWAYS_SAFE: letters, digits and "_.-~"
AlwaysSafe ==
    Ord("A")..Ord("Z") \cup Ord("a")..Ord("z") \cup Ord("0")..Ord("9")
        \cup {Ord("_"), Ord("."), Ord("-"), Ord("~")}

\* The safe set quote has when none is given: safe='/'
SafeCharsDefault == {Ord("/")}

\* The safe set with '+' in it
SafeCharsWithPlus ==
    {Ord("/"), Ord(":"), Ord(","), Ord("="), Ord("?"), Ord("&"), Ord("-"), Ord("_"),
     Ord("+")}

\* safe='/:,=?&-_'
SafeChars ==
    {Ord("/"), Ord(":"), Ord(","), Ord("="), Ord("?"), Ord("&"), Ord("-"), Ord("_")}

HexDigits == <<"0", "1", "2", "3", "4", "5", "6", "7", "8", "9", "A", "B", "C", "D",
               "E", "F">>

\* '%{:02X}'.format(b)
PercentByte(b) ==
    <<Ord("%"), Ord(HexDigits[(b \div 16) + 1]), Ord(HexDigits[(b % 16) + 1])>>

\* quote_from_bytes: a byte of the safe sets as its character, any other as %XX
RECURSIVE QuoteFromBytes(_, _)
QuoteFromBytes(bs, safe) ==
    IF bs = <<>> THEN <<>>
    ELSE (IF bs[1] \in AlwaysSafe \cup safe THEN <<bs[1]>> ELSE PercentByte(bs[1]))
             \o QuoteFromBytes(Tail(bs), safe)

\* urllib.quote(string, safe): the string encoded as UTF-8 (strictly), then quoted
Quote(string, safe) ==
    IF \E i \in DOMAIN string : IsSurrogate(string[i])
    THEN Raised("UnicodeEncodeError")
    ELSE Returned(QuoteFromBytes(Utf8EncodeAll(string), safe))

percent_escape(url) == Quote(url, SafeChars)

\* The value of a hexadecimal digit of either case, -1 for any other character
HexVal(c) ==
    IF c \in Ord("0")..Ord("9") THEN c - Ord("0")
    ELSE IF c \in Ord("A")..Ord("F") THEN c - Ord("A") + 10
    ELSE IF c \in Ord("a")..Ord("f") THEN c - Ord("a") + 10
    ELSE 0 - 1

\* unquote_to_bytes: %XX with two hexadecimal digits is the byte XX, a '%'
\* followed by anything else stays
RECURSIVE UnquoteToBytes(_)
UnquoteToBytes(s) ==
    IF s = <<>> THEN <<>>
    ELSE IF /\ s[1] = Ord("%")
            /\ Len(s) >= 3
            /\ HexVal(s[2]) >= 0
            /\ HexVal(s[3]) >= 0
    THEN <<HexVal(s[2]) * 16 + HexVal(s[3])>> \o UnquoteToBytes(SubSeq(s, 4, Len(s)))
    ELSE <<s[1]>> \o UnquoteToBytes(Tail(s))

\* The length of the run of ASCII (or of other) characters s starts with
RECURSIVE RunLength(_, _)
RunLength(s, ascii) ==
    IF s = <<>> \/ (s[1] < 128) # ascii THEN 0 ELSE 1 + RunLength(Tail(s), ascii)

\* The loop of unquote: every run of ASCII characters is unquoted to bytes and
\* decoded as UTF-8 with errors='replace', the other characters stay
RECURSIVE UnquoteRuns(_)
UnquoteRuns(s) ==
    IF s = <<>> THEN <<>>
    ELSE LET k == RunLength(s, s[1] < 128)
             run == SubSeq(s, 1, k)
         IN  (IF s[1] < 128 THEN Utf8Decode(UnquoteToBytes(run)) ELSE run)
                 \o UnquoteRuns(SubSeq(s, k + 1, Len(s)))

\* urllib.unquote(string)
Unquote(string) ==
    IF \A i \in DOMAIN string : string[i] # Ord("%") THEN string
    ELSE UnquoteRuns(string)

\* urllib.unquote in the place of unquote_plus: a '+' stays
UnquoteKeepingPlus(string) == Unquote(string)

\* urllib.unquote_plus(string): every '+' a blank, then unquote
UnquotePlus(string) ==
    Unquote([i \in DOMAIN string |->
                IF string[i] = Ord("+") THEN Ord(" ") ELSE string[i]])

percent_unescape(nstr) == Returned(UnquotePlus(nstr))

(***************************************************************************)
(* The inputs of the percent escaping functions, and the calls: each       *)
(* function on an argument, and the other function on what it returned     *)
(***************************************************************************)
MaxUrlLen == 2
MaxTokens == 3

\* e with an acute accent, the euro sign, an emoji, a lone surrogate
NonAscii == {233, 8364, 128512, 55296}

UrlAlphabet ==
    {Ord(c) : c \in {"a", "2", "0", " ", "+", "%", "#", "/", ":", ",", "=", "?", "&",
                     "-", "_", ".", "~"}} \cup NonAscii

UrlExamples ==
    {Ords(<<"/", "f", "o", "o", " ", "b", "a", "r", ":", "b", "a", "z">>),
     Ords(<<"a", " ", "b", "+", "c", "%", "2", "5">>),
     Ords(<<"%", "2", "0">>),
     Ords(<<"1", "0", "0", "%">>)}

Urls == SeqsUpTo(UrlAlphabet, MaxUrlLen) \cup UrlExamples

\* The pieces escaped strings are made of
Tokens ==
    {Ords(t) : t \in {<<"a">>, <<"+">>, <<"%">>, <<"2">>, <<"%", "2", "0">>,
                      <<"%", "2", "b">>, <<"%", "2", "5">>, <<"%", "C", "2">>,
                      <<"%", "A", "2">>, <<"%", "E", "2">>, <<"%", "8", "2">>,
                      <<"%", "F", "F">>, <<"%", "z", "z">>}} \cup {<<233>>}

RECURSIVE Concat(_)
Concat(parts) == IF parts = <<>> THEN <<>> ELSE parts[1] \o Concat(Tail(parts))

NativeExamples == {Ords(<<"a", "+", "b", "%", "2", "0", "c">>)}

NativeStrings ==
    {Concat(ts) : ts \in SeqsUpTo(Tokens, MaxTokens)} \cup NativeExamples

UrlInit ==
    /\ \/ urlKind = "text" /\ urlArg \in Urls
       \/ urlKind = "native" /\ urlArg \in NativeStrings
    /\ urlMid = None
    /\ urlRes = None
    /\ urlPc = "start"

IsValue(r) == "value" \in DOMAIN r

PercentEscape ==
    /\ \/ /\ urlPc = "start"
          /\ urlKind = "text"
          /\ urlMid' = percent_escape(urlArg)
          /\ urlPc' = "escaped"
          /\ UNCHANGED <<urlKind, urlArg, urlRes>>
       \/ /\ urlPc = "unescaped"
          /\ IsValue(urlMid)
          /\ urlRes' = percent_escape(urlMid.value)
          /\ urlPc' = "reescaped"
          /\ UNCHANGED <<urlKind, urlArg, urlMid>>
    /\ UNCHANGED <<dateVars, queryVars, deprecatedVars>>

PercentUnescape ==
    /\ \/ /\ urlPc = "start"
          /\ urlKind = "native"
          /\ urlMid' = percent_unescape(urlArg)
          /\ urlPc' = "unescaped"
          /\ UNCHANGED <<urlKind, urlArg, urlRes>>
       \/ /\ urlPc = "escaped"
          /\ IsValue(urlMid)
          /\ urlRes' = percent_unescape(urlMid.value)
          /\ urlPc' = "round_trip"
          /\ UNCHANGED <<urlKind, urlArg, urlMid>>
    /\ UNCHANGED <<dateVars, queryVars, deprecatedVars>>

UrlNext == PercentEscape \/ PercentUnescape

(***************************************************************************)
(* deprecated(instructions)(func): the wrapper builds the message, hands   *)
(* the warning to warnings.warn_explicit with the caller's file and line,  *)
(* and then calls func.  warn_explicit is given no registry, so only the   *)
(* "once" action, with its registry of the module warnings, drops repeats. *)
(***************************************************************************)
FilterActions == {"default", "always", "module", "once", "ignore", "error"}

\* The functions decorated, and the instructions each was decorated with
Decorated ==
    {[name |-> "double", instructions |-> "Please migrate to twice(...) ASAP."],
     [name |-> "checked", instructions |-> "Use check2(...)."]}

Args == {0, 1}

\* The lines of the caller's file the wrappers are called from
CallSites == {[filename |-> "app.py", lineno |-> 10],
              [filename |-> "app.py", lineno |-> 20]}

\* func(*args, **kwargs): what the function itself does
Apply(name, arg) ==
    IF name = "double" THEN Returned(2 * arg)
    ELSE IF arg = 0 THEN Raised("RuntimeError") ELSE Returned(arg)

\* 'Call to deprecated function {0}(...). {1}'.format(func.__name__, instructions)
Message(name, instructions) ==
    <<"Call to deprecated function ", name, "(...). ", instructions>>

MaxCalls == 3

DeprecatedInit ==
    /\ filterAction \in FilterActions
    /\ onceRegistry = {}
    /\ issued = 0
    /\ shown = 0
    /\ lastWarning = None
    /\ calls = 0
    /\ invocations = 0
    /\ cur = None
    /\ wpc = "idle"

\* A wrapper that calls the function before it warns
CallWrapperInvokeFirst(w, arg, site) ==
    /\ wpc = "idle"
    /\ calls < MaxCalls
    /\ calls' = calls + 1
    /\ cur' = [func |-> w.name, arg |-> arg, site |-> site,
               message |-> Message(w.name, w.instructions),
               issued |-> 0, shown |-> 0, invoked |-> FALSE, outcome |-> None]
    /\ wpc' = "invoke"
    /\ UNCHANGED <<filterAction, onceRegistry, issued, shown, lastWarning, invocations>>
    /\ UNCHANGED <<dateVars, queryVars, urlVars>>

\* A caller calls wrapper(*args, **kwargs)
CallWrapper(w, arg, site) ==
    /\ wpc = "idle"
    /\ calls < MaxCalls
    /\ calls' = calls + 1
    /\ cur' = [func |-> w.name, arg |-> arg, site |-> site,
               message |-> Message(w.name, w.instructions),
               issued |-> 0, shown |-> 0, invoked |-> FALSE, outcome |-> None]
    /\ wpc' = "warn"
    /\ UNCHANGED <<filterAction, onceRegistry, issued, shown, lastWarning, invocations>>
    /\ UNCHANGED <<dateVars, queryVars, urlVars>>

\* What warn_explicit does with the warning: whether it shows it
Shows(action, message, registry) ==
    \/ action \in {"default", "always", "module"}
    \/ action = "once" /\ message \notin registry

\* warnings.warn_explicit(message, category=DeprecatedWarning, filename, lineno)
WarnExplicit ==
    /\ wpc = "warn"
    /\ issued' = issued + 1
    /\ IF filterAction = "error"
       THEN \* the warning is raised as an exception, out of the wrapper
            /\ cur' = [cur EXCEPT !.issued = @ + 1,
                                  !.outcome = Raised("DeprecatedWarning")]
            /\ wpc' = "idle"
            /\ UNCHANGED <<onceRegistry, shown, lastWarning>>
       ELSE /\ IF Shows(filterAction, cur.message, onceRegistry)
               THEN /\ shown' = shown + 1
                    /\ lastWarning' = [message |-> cur.message,
                                       category |-> "DeprecatedWarning",
                                       filename |-> cur.site.filename,
                                       lineno |-> cur.site.lineno]
                    /\ cur' = [cur EXCEPT !.issued = @ + 1, !.shown = @ + 1]
               ELSE /\ cur' = [cur EXCEPT !.issued = @ + 1]
                    /\ UNCHANGED <<shown, lastWarning>>
            /\ onceRegistry' = IF filterAction = "once"
                               THEN onceRegistry \cup {cur.message}
                               ELSE onceRegistry
            /\ wpc' = "invoke"
    /\ UNCHANGED <<filterAction, calls, invocations>>
    /\ UNCHANGED <<dateVars, queryVars, urlVars>>

\* func(*args, **kwargs) without the return: the wrapper gives None
InvokeFuncNoReturn ==
    /\ wpc = "invoke"
    /\ invocations' = invocations + 1
    /\ cur' = [cur EXCEPT !.invoked = TRUE,
                          !.outcome = IF IsValue(Apply(cur.func, cur.arg))
                                      THEN None
                                      ELSE Apply(cur.func, cur.arg)]
    /\ wpc' = "idle"
    /\ UNCHANGED <<filterAction, onceRegistry, issued, shown, lastWarning, calls>>
    /\ UNCHANGED <<dateVars, queryVars, urlVars>>

\* return func(*args, **kwargs)
InvokeFunc ==
    /\ wpc = "invoke"
    /\ invocations' = invocations + 1
    /\ cur' = [cur EXCEPT !.invoked = TRUE, !.outcome = Apply(cur.func, cur.arg)]
    /\ wpc' = "idle"
    /\ UNCHANGED <<filterAction, onceRegistry, issued, shown, lastWarning, calls>>
    /\ UNCHANGED <<dateVars, queryVars, urlVars>>

DeprecatedNext ==
    \/ \E w \in Decorated, arg \in Args, site \in CallSites : CallWrapper(w, arg, site)
    \/ WarnExplicit
    \/ InvokeFunc

(***************************************************************************)
(* The claims about the date functions                                     *)
(***************************************************************************)
\* The weekday of a date by Zeller's congruence, Monday 0
ZellerWeekday(y, m, d) ==
    LET mm == IF m < 3 THEN m + 12 ELSE m
        yy == IF m < 3 THEN y - 1 ELSE y
        k == yy % 100
        j == yy \div 100
        h == (d + (13 * (mm + 1)) \div 5 + k + k \div 4 + j \div 4 + 5 * j) % 7
    IN  (h + 5) % 7

\* s is "<Weekday>, <DD> <Mon> <YYYY> <HH>:<MM>:<SS> GMT", field by field
IsExactFormat(s) ==
    /\ Len(s) = 29
    /\ SubSeq(s, 1, 3) \in Range(DayNames)
    /\ SubSeq(s, 4, 5) = <<",", " ">>
    /\ IsDigit(s[6]) /\ IsDigit(s[7]) /\ s[8] = " "
    /\ SubSeq(s, 9, 11) \in Range(MonthNames)
    /\ s[12] = " "
    /\ \A i \in 13..16 : IsDigit(s[i])
    /\ s[17] = " "
    /\ IsDigit(s[18]) /\ IsDigit(s[19]) /\ s[20] = ":"
    /\ IsDigit(s[21]) /\ IsDigit(s[22]) /\ s[23] = ":"
    /\ IsDigit(s[24]) /\ IsDigit(s[25])
    /\ SubSeq(s, 26, 29) = <<" ", "G", "M", "T">>

\* s is the exact format and its fields are those of the timestamp t
IsHttpDateOf(s, t) ==
    /\ IsExactFormat(s)
    /\ SubSeq(s, 1, 3) = DayNames[ZellerWeekday(t.year, t.month, t.day) + 1]
    /\ IntOf(SubSeq(s, 6, 7)) = t.day
    /\ SubSeq(s, 9, 11) = MonthNames[t.month]
    /\ IntOf(SubSeq(s, 13, 16)) = t.year
    /\ IntOf(SubSeq(s, 18, 19)) = t.hour
    /\ IntOf(SubSeq(s, 21, 22)) = t.minute
    /\ IntOf(SubSeq(s, 24, 25)) = t.second

\* C1: parsing the string dt_to_http made of a timestamp gives the timestamp
\* back: http_date_to_dt(dt_to_http(t)) = t
C1_RoundTrip ==
    (datePc = "parsed" /\ dateKind = "dt_to_http") => dtRes = dtArg

\* C2: dt_to_http returns, for every timestamp, a string of the exact form
\* "<Weekday>, <DD> <Mon> <YYYY> <HH>:<MM>:<SS> GMT" with the fields of the
\* timestamp, and "Tue, 15 Nov 1994 12:45:26 GMT" for 1994-11-15 12:45:26
C2_ExactForm ==
    datePc = "formatted" =>
        /\ IsHttpDateOf(dateStr, dtArg)
        /\ dtArg = DateTime(1994, 11, 15, 12, 45, 26) =>
               dateStr = <<"T", "u", "e", ",", " ", "1", "5", " ", "N", "o", "v", " ",
                           "1", "9", "9", "4", " ", "1", "2", ":", "4", "5", ":", "2",
                           "6", " ", "G", "M", "T">>

C4_QueryShape ==
    queryPc = "returned" =>
        IF params = <<>> THEN queryStr = <<>>
        ELSE queryStr =
                 <<"?">> \o Join(<<"&">>,
                                 [i \in DOMAIN params |->
                                     params[i][1] \o <<"=">> \o RenderValue(params[i][2])])

\* C4's case: a mapping of two entries was turned into a query string
C4_Witness ==
    /\ queryPc = "returned"
    /\ Len(params) = 2
    /\ queryStr = <<"?", "a", "=", "1", "&", "b", "=", "t", "r", "u", "e">>

\* The text the rules of the specification give a value
RuleText(v) ==
    CASE v = PyBool(TRUE) -> <<"t", "r", "u", "e">>
      [] v = PyBool(FALSE) -> <<"f", "a", "l", "s", "e">>
      [] v = PyInt(1) -> <<"1">>
      [] v = PyInt(0) -> <<"0">>
      [] v = PyList(<<PyInt(1), PyInt(2), PyInt(3)>>) -> <<"1", ",", "2", ",", "3">>
      [] v = PyList(<<>>) -> <<>>
      [] v.type = "list" /\ Len(v.v) = 1 -> Str(v.v[1])
      [] v.type = "list" /\ Len(v.v) > 1 ->
             Join(<<",">>, [i \in DOMAIN v.v |-> Str(v.v[i])])
      [] OTHER -> Str(v)

EscapedAsClaimed(c) ==
    IF c \in {Ord(x) : x \in {"/", ":", ",", "=", "?", "&", "-", "_", "a", "2", "0",
                              ".", "~", "f", "o", "b", "r", "z", "c", "1", "5"}}
    THEN <<c>>
    ELSE CASE c = Ord(" ") -> Ords(<<"%", "2", "0">>)
           [] c = Ord("+") -> Ords(<<"%", "2", "B">>)
           [] c = Ord("%") -> Ords(<<"%", "2", "5">>)
           [] c = Ord("#") -> Ords(<<"%", "2", "3">>)
           [] c = 233 -> Ords(<<"%", "C", "3", "%", "A", "9">>)
           [] c = 8364 -> Ords(<<"%", "E", "2", "%", "8", "2", "%", "A", "C">>)
           [] c = 128512 ->
                  Ords(<<"%", "F", "0", "%", "9", "F", "%", "9", "8", "%", "8", "0">>)

UnescapeExamples ==
    {<<Ords(<<"a", "+", "b", "%", "2", "0", "c">>), Ords(<<"a", " ", "b", " ", "c">>)>>,
     <<Ords(<<"+">>), Ords(<<" ">>)>>,
     <<Ords(<<"%", "2", "b">>), Ords(<<"+">>)>>,
     <<Ords(<<"%", "2", "5", "2">>), Ords(<<"%", "2">>)>>,
     <<Ords(<<"%", "C", "2", "%", "A", "2">>), <<162>>>>,
     <<Ords(<<"%", "E", "2", "%", "8", "2", "%", "A", "2">>), <<8354>>>>,
     <<Ords(<<"%", "C", "2">>), <<ReplacementChar>>>>,
     <<Ords(<<"%", "A", "2", "a">>), <<ReplacementChar, Ord("a")>>>>,
     <<Ords(<<"%", "F", "F", "%", "F", "F">>), <<ReplacementChar, ReplacementChar>>>>,
     <<Ords(<<"%", "E", "2", "%", "8", "2">>), <<ReplacementChar>>>>,
     <<Ords(<<"%", "C", "2", "+", "%", "A", "2">>),
       <<ReplacementChar, Ord(" "), ReplacementChar>>>>,
     <<Ords(<<"%", "z", "z">>), Ords(<<"%", "z", "z">>)>>,
     <<Ords(<<"%", "2">>), Ords(<<"%", "2">>)>>}

\* C7: percent_unescape returns a text for every input string and never
\* fails: every '+' is a blank, every %XX the byte XX, the bytes are decoded as
\* UTF-8 and bytes that are not UTF-8 become the replacement character
C7_UnescapeTotal ==
    urlPc = "unescaped" =>
        /\ IsValue(urlMid)
        /\ \A e \in UnescapeExamples : urlArg = e[1] => urlMid.value = e[2]
        /\ (\A i \in DOMAIN urlArg : urlArg[i] # Ord("%")) =>
               /\ Len(urlMid.value) = Len(urlArg)
               /\ \A i \in DOMAIN urlArg :
                      urlMid.value[i] = IF urlArg[i] = Ord("+") THEN Ord(" ")
                                        ELSE urlArg[i]

\* C7's case: "a+b%20c" was decoded to "a b c"
C7_Witness ==
    /\ urlPc = "unescaped"
    /\ urlArg = Ords(<<"a", "+", "b", "%", "2", "0", "c">>)
    /\ urlMid = Returned(Ords(<<"a", " ", "b", " ", "c">>))

\* C9 as stated: for every text s, percent_unescape(percent_escape(s)) = s
C9_RoundTripOfEveryText ==
    /\ (urlKind = "text" /\ urlPc = "escaped") => IsValue(urlMid)
    /\ urlPc = "round_trip" => urlRes = Returned(urlArg)

\* C9 as amended: for every text s that has a UTF-8 encoding (no lone
\* surrogate), one with '+', '%' or blanks included,
\* percent_unescape(percent_escape(s)) = s; and every string x with a '+' in
\* it has percent_escape(percent_unescape(x)) # x
C9_RoundTrip ==
    /\ (urlKind = "text" /\ urlPc = "escaped") =>
           (IsValue(urlMid) <=> \A i \in DOMAIN urlArg : ~IsSurrogate(urlArg[i]))
    /\ urlPc = "round_trip" => urlRes = Returned(urlArg)
    /\ (urlPc = "reescaped" /\ \E i \in DOMAIN urlArg : urlArg[i] = Ord("+")) =>
           urlRes # Returned(urlArg)

\* C9's case: a text with '+', '%' and a blank came back from the round trip
C9_Witness ==
    /\ urlPc = "round_trip"
    /\ urlArg = Ords(<<"a", " ", "b", "+", "c", "%", "2", "5">>)
    /\ urlRes = Returned(urlArg)

(***************************************************************************)
(* The claims about the deprecation decorator                              *)
(***************************************************************************)
Finished == wpc = "idle" /\ calls > 0

\* C8 as stated: every call of the wrapper returns what the function returns
\* for the arguments, and k calls show k warnings
C8_EveryCall ==
    wpc = "idle" =>
        /\ shown = calls
        /\ calls > 0 => cur.outcome = Apply(cur.func, cur.arg)

\* C8 as amended: unless the warnings filters turn the warning into an error,
\* every call of the wrapper gives what the function gives for the arguments
\* and hands exactly one DeprecatedWarning, with the function's name and the
\* instructions in its message, to the warnings module; under the actions
\* default, always and module (the default filters give default) every one of
\* them is shown, k calls show k warnings, none dropped as a repeat
C8_CallsAndWarnings ==
    /\ (Finished /\ filterAction # "error") =>
           /\ cur.outcome = Apply(cur.func, cur.arg)
           /\ cur.issued = 1
           /\ issued = calls
    /\ (wpc = "idle" /\ filterAction \in {"default", "always", "module"}) =>
           /\ shown = calls
           /\ calls > 0 =>
                  /\ cur.shown = 1
                  /\ lastWarning.category = "DeprecatedWarning"
                  /\ lastWarning.message[2] = cur.func
                  /\ \E w \in Decorated : /\ w.name = cur.func
                                          /\ lastWarning.message[4] = w.instructions

\* C8's case: three calls under the default action showed three warnings
C8_Witness ==
    /\ Finished
    /\ filterAction = "default"
    /\ calls = 3
    /\ shown = 3
    /\ cur.outcome = Returned(2)

\* C10: in every call the wrapper hands the warning to the warnings module
\* before it calls the function: the function is never called before that,
\* the warning has been handed over exactly once also when the function
\* raises, and when the filters turn the warning into an error the function
\* is not called and the call raises the warning
C10_WarningFirst ==
    calls > 0 =>
        /\ cur.invoked => cur.issued = 1
        /\ wpc = "invoke" => cur.issued = 1
        /\ invocations <= issued
        /\ (Finished /\ cur.invoked /\ ~IsValue(cur.outcome)) => cur.issued = 1
        /\ (Finished /\ filterAction = "error") =>
               /\ ~cur.invoked
               /\ invocations = 0
               /\ cur.outcome = Raised("DeprecatedWarning")

\* C10's case: the function raised after its warning had been shown
C10_Witness ==
    /\ Finished
    /\ cur.invoked
    /\ cur.outcome = Raised("RuntimeError")
    /\ cur.issued = 1
    /\ cur.shown = 1

(***************************************************************************)
(* The specifications: the functions do not call each other and share no   *)
(* state, so each part is checked with the other parts at rest             *)
(***************************************************************************)
vars == <<dateVars, queryVars, urlVars, deprecatedVars>>

DateIdle ==
    /\ padYear = TRUE
    /\ tzname = << <<"U", "T", "C">>, <<"U", "T", "C">> >>
    /\ dtArg = None
    /\ dateKind = "dt_to_http"
    /\ dateStr = <<>>
    /\ dtRes = None
    /\ datePc = "idle"

QueryIdle ==
    /\ params = <<>>
    /\ queryStr = <<>>
    /\ queryPc = "idle"

UrlIdle ==
    /\ urlKind = "text"
    /\ urlArg = <<>>
    /\ urlMid = None
    /\ urlRes = None
    /\ urlPc = "idle"

DeprecatedIdle ==
    /\ filterAction = "default"
    /\ onceRegistry = {}
    /\ issued = 0
    /\ shown = 0
    /\ lastWarning = None
    /\ calls = 0
    /\ invocations = 0
    /\ cur = None
    /\ wpc = "off"

DateStart == DateInit /\ QueryIdle /\ UrlIdle /\ DeprecatedIdle

QueryStart == QueryInit /\ DateIdle /\ UrlIdle /\ DeprecatedIdle

UrlStart == UrlInit /\ DateIdle /\ QueryIdle /\ DeprecatedIdle

DeprecatedStart == DeprecatedInit /\ DateIdle /\ QueryIdle /\ UrlIdle

SpecDate == DateStart /\ [][DateNext]_vars

SpecQuery == QueryStart /\ [][QueryNext]_vars

SpecUrl == UrlStart /\ [][UrlNext]_vars

SpecDeprecated == DeprecatedStart /\ [][DeprecatedNext]_vars

====
